---- MODULE Spec2Model ----
(***************************************************************************)
(* Access resolution, sharing and version history of notes-django.         *)
(*                                                                         *)
(* The state is the content of the tables notes_notes, notes_collaborators,*)
(* notes_versions, groups_group, groups_membership and groups_notes.  Each *)
(* request handler of NoteViewSet is one action; the signal receivers of   *)
(* notes/signals.py run inside the save()/delete() that triggers them and  *)
(* are part of the same action.  Rows written to the append-only tables    *)
(* (audit log, notifications) and web-socket sends are recorded, in the    *)
(* order the handler produces them, in `emitted`, which holds the effects  *)
(* of the most recent request.                                             *)
(***************************************************************************)
EXTENDS Integers, Sequences, FiniteSets, TLC

\* ------------------------------------------------------------------------
\* Universe of values
\* ------------------------------------------------------------------------
Users == {"alice", "bob", "carol"}
NoteIds == {"n1", "n2"}
GroupIds == {"g1"}
Titles == {"t1", "t2"}
Contents == {"c1", "c2"}

\* Note.STATUS_CHOICES, Note.VISIBILITY_CHOICES
STATUS_CHOICES == {"draft", "published", "archived", "deleted"}
VISIBILITY_CHOICES == {"private", "shared", "public"}
\* NoteCollaborator.PERMISSION_CHOICES, ordered view < comment < edit < admin
PERMISSION_CHOICES == {"view", "comment", "edit", "admin"}
\* GroupNote.PERMISSION_CHOICES
GROUP_NOTE_PERMISSION_CHOICES == {"view", "comment", "edit"}
\* GroupMembership.ROLE_CHOICES
ROLE_CHOICES == {"owner", "admin", "moderator", "member"}

\* permissions.SAFE_METHODS actions of NoteViewSet and the others
SafeActions == {"retrieve", "versions"}
UnsafeActions == {"update", "partial_update", "destroy", "share", "unshare",
                  "restore_version", "toggle_pin", "toggle_favorite",
                  "archive", "publish", "view", "export"}
ViewActions == SafeActions \cup UnsafeActions

\* settings.MAX_NOTE_VERSIONS (default 50), scaled down so that pruning happens
MAX_NOTE_VERSIONS == 2
\* total number of NoteVersion rows ever inserted
MaxVersionRows == 5
\* number of request slots whose version commit may interleave
MaxCommitters == 2
\* number of comments stored per note
MaxComments == 2

NoUser == "none"

VARIABLES
    notes,          \* notes_notes: id -> row
    collaborators,  \* notes_collaborators: set of rows
    versions,       \* notes_versions: set of rows
    nextVid,        \* next fresh NoteVersion id
    deleted,        \* ids of notes that were deleted (a uuid is never reused)
    groups,         \* groups_group: id -> row
    memberships,    \* groups_membership: set of rows
    groupNotes,     \* groups_notes: set of rows
    pending,        \* version commits in flight, per request slot
    last,           \* the most recent request and its outcome
    emitted         \* effects of the most recent request, in order

noteTables == <<notes, collaborators, versions, nextVid, deleted>>
groupTables == <<groups, memberships, groupNotes>>
vars == <<notes, collaborators, versions, nextVid, deleted, groups, memberships,
          groupNotes, pending, last, emitted>>

\* ------------------------------------------------------------------------
\* Helpers
\* ------------------------------------------------------------------------
PermRank(p) ==
    CASE p = "none" -> 0
      [] p = "view" -> 1
      [] p = "comment" -> 2
      [] p = "edit" -> 3
      [] p = "admin" -> 4

Min(a, b) == IF a <= b THEN a ELSE b

MaxOf(S) == CHOOSE x \in S : \A y \in S : y <= x

RECURSIVE SetToSeq(_)
SetToSeq(S) ==
    IF S = {} THEN <<>>
    ELSE LET x == CHOOSE y \in S : TRUE
         IN <<x>> \o SetToSeq(S \ {x})

Exists(n) == n \in DOMAIN notes

Audit(user, action, target) ==
    [kind |-> "audit", who |-> user, what |-> action, by |-> user, note |-> target]
Notification(recipient, sender, type, target) ==
    [kind |-> "notification", who |-> recipient, what |-> type, by |-> sender, note |-> target]
GroupSend(recipient, channel, event_type, target) ==
    [kind |-> channel, who |-> recipient, what |-> event_type, by |-> NoUser, note |-> target]

\* what a handler read from request.data: user_ids / user_id, permission,
\* version_id; a request refused by get_object() has read nothing
NoArg == [user |-> NoUser, permission |-> "none", version |-> 0]
ShareArg(target, permission) == [NoArg EXCEPT !.user = target, !.permission = permission]
VersionArg(vid) == [NoArg EXCEPT !.version = vid]

Request(op, u, n, outcome) ==
    [op |-> op, user |-> u, note |-> n, outcome |-> outcome, arg |-> NoArg]

\* rows of notes_collaborators for (note, user); unique_together = [note, user]
CollaboratorRows(n, u) == {r \in collaborators : r.note = n /\ r.user = u}

\* note.notecollaborator_set.get(user=u, is_active=True) finds a row
ActiveCollaborator(n, u) == \E r \in CollaboratorRows(n, u) : r.is_active

\* note.collaborators.filter(notecollaborator__is_active=True)
ActiveCollaborators(n) == {r.user : r \in {x \in collaborators : x.note = n /\ x.is_active}}

\* note.versions.all(): rows of the note
NoteVersions(vs, n) == {v \in vs : v.note = n}

\* ------------------------------------------------------------------------
\* Access resolution
\* ------------------------------------------------------------------------

\* get_queryset without the visibility filter
get_queryset_AllNotes(u, n) == TRUE

\* NoteViewSet.get_queryset: author | active collaborator | public+published
get_queryset(u, n) ==
    \/ notes[n].author = u
    \/ ActiveCollaborator(n, u)
    \/ (notes[n].visibility = "public" /\ notes[n].status = "published")

\* a collaborator row of any level passing for every write action
collaborator_may_AnyLevel(collaborator, action) == TRUE

\* the rule a collaborator row gives for a write action
collaborator_may(collaborator, action) ==
    IF action \in {"update", "partial_update"}
    THEN collaborator.permission \in {"edit", "admin"}
    ELSE IF action \in {"share", "unshare"}
    THEN collaborator.permission = "admin"
    ELSE collaborator.permission \in {"edit", "admin"}

\* has_object_permission without "El autor siempre puede editar"
has_object_permission_NoAuthorShortcut(u, action, n) ==
    IF action \in SafeActions
    THEN \/ notes[n].author = u
         \/ ActiveCollaborator(n, u)
         \/ (notes[n].visibility = "public" /\ notes[n].status = "published")
    ELSE IF action = "destroy" THEN notes[n].author = u
    ELSE IF ActiveCollaborator(n, u)
    THEN collaborator_may(CHOOSE r \in CollaboratorRows(n, u) : r.is_active, action)
    ELSE FALSE

\* has_object_permission without "Solo el autor puede eliminar"
has_object_permission_DestroyAsWrite(u, action, n) ==
    IF action \in SafeActions
    THEN \/ notes[n].author = u
         \/ ActiveCollaborator(n, u)
         \/ (notes[n].visibility = "public" /\ notes[n].status = "published")
    ELSE IF notes[n].author = u THEN TRUE
    ELSE IF ActiveCollaborator(n, u)
    THEN collaborator_may(CHOOSE r \in CollaboratorRows(n, u) : r.is_active, action)
    ELSE FALSE

\* has_object_permission where share/unshare take the default write rule
has_object_permission_ShareAsWrite(u, action, n) ==
    IF action \in SafeActions
    THEN \/ notes[n].author = u
         \/ ActiveCollaborator(n, u)
         \/ (notes[n].visibility = "public" /\ notes[n].status = "published")
    ELSE IF action = "destroy" THEN notes[n].author = u
    ELSE IF notes[n].author = u THEN TRUE
    ELSE IF ActiveCollaborator(n, u)
    THEN (CHOOSE r \in CollaboratorRows(n, u) : r.is_active).permission \in {"edit", "admin"}
    ELSE FALSE

\* has_object_permission where a public note is readable whatever its status
has_object_permission_PublicAnyStatus(u, action, n) ==
    IF action \in SafeActions
    THEN \/ notes[n].author = u
         \/ ActiveCollaborator(n, u)
         \/ notes[n].visibility = "public"
    ELSE IF action = "destroy" THEN notes[n].author = u
    ELSE IF notes[n].author = u THEN TRUE
    ELSE IF ActiveCollaborator(n, u)
    THEN collaborator_may(CHOOSE r \in CollaboratorRows(n, u) : r.is_active, action)
    ELSE FALSE

\* NotePermission.has_object_permission
has_object_permission(u, action, n) ==
    IF action \in SafeActions
    THEN \/ notes[n].author = u
         \/ ActiveCollaborator(n, u)
         \/ (notes[n].visibility = "public" /\ notes[n].status = "published")
    ELSE IF action = "destroy" THEN notes[n].author = u
    ELSE IF notes[n].author = u THEN TRUE
    ELSE IF ActiveCollaborator(n, u)
    THEN collaborator_may(CHOOSE r \in CollaboratorRows(n, u) : r.is_active, action)
    ELSE FALSE

\* GenericAPIView.get_object as NoteViewSet uses it: 404 when the note is not
\* in get_queryset(), 403 when a permission class refuses the object.
get_object(u, action, n) ==
    IF ~Exists(n) THEN "not_found"
    ELSE IF ~get_queryset(u, n) THEN "not_found"
    ELSE IF ~has_object_permission(u, action, n) THEN "forbidden"
    ELSE "ok"

\* get_user_permission that looks the row up without is_active=True
get_user_permission_AnyRow(u, n) ==
    IF notes[n].author = u THEN "admin"
    ELSE IF CollaboratorRows(n, u) # {}
    THEN (CHOOSE r \in CollaboratorRows(n, u) : TRUE).permission
    ELSE "none"

\* NoteDetailSerializer.get_user_permission ("none" stands for None)
get_user_permission(u, n) ==
    IF notes[n].author = u THEN "admin"
    ELSE IF ActiveCollaborator(n, u)
    THEN (CHOOSE r \in CollaboratorRows(n, u) : r.is_active).permission
    ELSE "none"

\* ------------------------------------------------------------------------
\* Diff statistics (notes/signals.py create_note_version, difflib)
\* ------------------------------------------------------------------------

\* The characters of the texts that Note.content takes in the model.  The
\* tables hold the name of a text, Text gives its characters.
Text(c) ==
    CASE c = "c1" -> <<"a", " ", "b">>
      [] c = "c2" -> <<"a", " ", "b", "\n", "c">>
      [] c = "c3" -> <<" ", "c", " ", "d">>
      [] c = "c4" -> <<"c", "\n", "a", " ", "b">>
      [] c = "c5" -> <<"-", "-", " ", "a", "\n", "+", "+">>
      [] c = "c6" -> <<"a", " ", "b", "\n", "\n", "a", " ", "b", "\n">>
      [] c = "c7" -> <<"c">>
      [] OTHER -> <<>>

DiffContents == {"c1", "c2", "c3", "c4", "c5", "c6", "c7"}

RECURSIVE Sum(_)
Sum(q) == IF q = <<>> THEN 0 ELSE Head(q) + Sum(Tail(q))

Range(q) == {q[i] : i \in 1..Len(q)}

\* str.splitlines(): the pieces between line breaks, no piece after a final break
RECURSIVE splitlines(_)
splitlines(s) ==
    IF s = <<>> THEN <<>>
    ELSE IF \A i \in 1..Len(s) : s[i] # "\n" THEN <<s>>
    ELSE LET i == CHOOSE k \in 1..Len(s) : s[k] = "\n" /\ \A j \in 1..(k - 1) : s[j] # "\n"
         IN  <<SubSeq(s, 1, i - 1)>> \o splitlines(SubSeq(s, i + 1, Len(s)))

\* len(line.split()): the number of maximal runs of non-blank characters
split_len(line) ==
    Cardinality({i \in 1..Len(line) : line[i] # " " /\ (i = 1 \/ line[i - 1] = " ")})

\* line.startswith(prefix)
startswith(line, prefix) ==
    Len(line) >= Len(prefix) /\ SubSeq(line, 1, Len(prefix)) = prefix

\* SequenceMatcher.find_longest_match(alo, ahi, blo, bhi) without junk: the
\* longest block a[i..i+k-1] = b[j..j+k-1], the one starting earliest in a
\* and, among those, earliest in b (k = 0 when no line matches)
find_longest_match(a, alo, ahi, b, blo, bhi) ==
    LET Blocks == {m \in [i : alo..ahi, j : blo..bhi, k : 1..Len(a)] :
                      /\ m.i + m.k - 1 <= ahi
                      /\ m.j + m.k - 1 <= bhi
                      /\ \A d \in 0..(m.k - 1) : a[m.i + d] = b[m.j + d]}
        Better(m, o) == \/ m.k > o.k
                        \/ m.k = o.k /\ m.i < o.i
                        \/ m.k = o.k /\ m.i = o.i /\ m.j <= o.j
    IN  IF Blocks = {} THEN [i |-> alo, j |-> blo, k |-> 0]
        ELSE CHOOSE m \in Blocks : \A o \in Blocks : Better(m, o)

\* the lines q[lo..hi], each with the one-character tag in front
tagged(tag, q, lo, hi) == [x \in 1..(hi - lo + 1) |-> <<tag>> \o q[lo + x - 1]]

\* get_matching_blocks / get_opcodes and the body of unified_diff: the block
\* found splits both sides, what is left between blocks goes out as '-' lines
\* of a followed by '+' lines of b, the lines of a block as ' ' lines
RECURSIVE diff_body(_, _, _, _, _, _)
diff_body(a, alo, ahi, b, blo, bhi) ==
    LET m == find_longest_match(a, alo, ahi, b, blo, bhi)
    IN  IF m.k = 0
        THEN tagged("-", a, alo, ahi) \o tagged("+", b, blo, bhi)
        ELSE diff_body(a, alo, m.i - 1, b, blo, m.j - 1)
             \o tagged(" ", a, m.i, m.i + m.k - 1)
             \o diff_body(a, m.i + m.k, ahi, b, m.j + m.k, bhi)

\* difflib.unified_diff(a, b, lineterm=''): nothing for equal inputs, else
\* the two file header lines, the hunk header and the tagged lines (the texts
\* of the model are short enough for one hunk with every line in it)
unified_diff(a, b) ==
    IF a = b THEN <<>>
    ELSE <<<<"-", "-", "-", " ">>, <<"+", "+", "+", " ">>, <<"@", "@">>>>
         \o diff_body(a, 1, Len(a), b, 1, Len(b))

ZeroStats == [characters_added |-> 0, characters_removed |-> 0,
              words_added |-> 0, words_removed |-> 0]

\* the loop over the diff: a line that starts with '+' but not '+++' adds
\* len(line) - 1 characters and len(line.split()) - 1 words, a line that
\* starts with '-' but not '---' removes as much
diff_stats(old_content, new_content) ==
    LET diff == unified_diff(splitlines(old_content), splitlines(new_content))
        plus == SelectSeq(diff, LAMBDA l : startswith(l, <<"+">>)
                                            /\ ~startswith(l, <<"+", "+", "+">>))
        minus == SelectSeq(diff, LAMBDA l : startswith(l, <<"-">>)
                                             /\ ~startswith(l, <<"-", "-", "-">>))
    IN  [characters_added |-> Sum([i \in 1..Len(plus) |-> Len(plus[i]) - 1]),
         characters_removed |-> Sum([i \in 1..Len(minus) |-> Len(minus[i]) - 1]),
         words_added |-> Sum([i \in 1..Len(plus) |-> split_len(plus[i]) - 1]),
         words_removed |-> Sum([i \in 1..Len(minus) |-> split_len(minus[i]) - 1])]

\* ------------------------------------------------------------------------
\* Version store (notes/signals.py create_note_version)
\* ------------------------------------------------------------------------

\* note.versions.first() with Meta.ordering = ['-version_number']
LatestVersion(vs, n) ==
    CHOOSE v \in NoteVersions(vs, n) : \A w \in NoteVersions(vs, n) :
        w.version_number <= v.version_number

\* the statistics of a commit: zero without a last version, else the diff
\* between the last version's content and the note's content
version_stats(vs, n, content) ==
    IF NoteVersions(vs, n) = {} THEN ZeroStats
    ELSE diff_stats(Text(LatestVersion(vs, n).content), Text(content))

\* next number taken from the number of stored rows instead of the last row
next_version_number_ByCount(vs, n) == Cardinality(NoteVersions(vs, n)) + 1

\* note.versions.first() with Meta.ordering = ['-version_number'], then
\* version_number = last_version.version_number + 1, or 1 without a row
next_version_number(vs, n) ==
    IF NoteVersions(vs, n) = {} THEN 1
    ELSE MaxOf({v.version_number : v \in NoteVersions(vs, n)}) + 1

\* the row NoteVersion.objects.create(...) inserts
version_row(vid, n, row, user, number, summary, stats) ==
    [id |-> vid, note |-> n, version_number |-> number, title |-> row.title,
     content |-> row.content, created_by |-> user, change_summary |-> summary,
     characters_added |-> stats.characters_added,
     characters_removed |-> stats.characters_removed,
     words_added |-> stats.words_added, words_removed |-> stats.words_removed]

\* pruning with the slice taken one row too late
prune_versions_OneTooMany(vs, n) ==
    vs \ {v \in NoteVersions(vs, n) :
              Cardinality({w \in NoteVersions(vs, n) :
                              w.version_number > v.version_number}) > MAX_NOTE_VERSIONS}

\* note.versions.all()[max_versions:] followed by version.delete() for each:
\* every row that has at least max_versions rows above it is deleted
prune_versions(vs, n) ==
    vs \ {v \in NoteVersions(vs, n) :
              Cardinality({w \in NoteVersions(vs, n) :
                              w.version_number > v.version_number}) >= MAX_NOTE_VERSIONS}

\* create_note_version run without interruption
create_note_version(vs, vid, n, row, user, summary) ==
    prune_versions(
        vs \cup {version_row(vid, n, row, user, next_version_number(vs, n), summary,
                             version_stats(vs, n, row.content))}, n)

\* ------------------------------------------------------------------------
\* Notifications (notes/signals.py)
\* ------------------------------------------------------------------------

\* rows of notifications_type
NotificationTypes == {"note_shared", "note_commented"}

\* notify_note_event: the author's group, then one send per active collaborator
notify_note_event(n, author, event_type) ==
    <<GroupSend(author, "user_notes", event_type, n)>> \o
    [i \in 1..Cardinality(ActiveCollaborators(n)) |->
        GroupSend(SetToSeq(ActiveCollaborators(n))[i], "user_notes", event_type, n)]

\* notify_note_collaborators: one send per active collaborator
notify_note_collaborators(n, event_type) ==
    [i \in 1..Cardinality(ActiveCollaborators(n)) |->
        GroupSend(SetToSeq(ActiveCollaborators(n))[i], "user_notifications", event_type, n)]

\* notify_user_event
notify_user_event(u, event_type, n) ==
    <<GroupSend(u, "user_notifications", event_type, n)>>

\* ------------------------------------------------------------------------
\* Note.save and the post_save receivers
\* ------------------------------------------------------------------------

\* Note.save: published_at / archived_at are stamped when still empty
Note_save(row) ==
    IF row.status = "published" /\ ~row.published_at
    THEN [row EXCEPT !.published_at = TRUE]
    ELSE IF row.status = "archived" /\ ~row.archived_at
    THEN [row EXCEPT !.archived_at = TRUE]
    ELSE row

TrackedFields == {"title", "content", "status", "visibility", "priority"}

\* Note.PRIORITY_CHOICES, each level named by its digit; the column default
PRIORITY_CHOICES == {"1", "2", "3", "4", "5"}
DefaultPriority == "3"

\* handle_note_updated: the fields of the loop whose value differs
changed_fields(old, new) == {f \in TrackedFields : old[f] # new[f]}

commits_version_AnyField(old, new) == changed_fields(old, new) # {}

\* handle_note_updated creates a version when title or content changed
commits_version(old, new) ==
    "title" \in changed_fields(old, new) \/ "content" \in changed_fields(old, new)

\* handle_note_updated: effects, in order (audit row, then the web-socket sends)
handle_note_updated_effects(n, old, new, updated_by) ==
    IF changed_fields(old, new) = {} THEN <<>>
    ELSE <<Audit(updated_by, "update", n)>> \o notify_note_collaborators(n, "note_updated")

\* handle_note_updated: the version table after it
handle_note_updated_versions(vs, vid, n, old, new, updated_by) ==
    IF commits_version(old, new)
    THEN create_note_version(vs, vid, n, new,
                             IF updated_by = NoUser THEN new.author ELSE updated_by,
                             "update")
    ELSE vs

\* handle_note_created: audit row, first version, web-socket sends
handle_note_created_effects(n, row) ==
    <<Audit(row.author, "create", n)>> \o notify_note_event(n, row.author, "note_created")

\* ------------------------------------------------------------------------
\* Initial state: empty tables
\* ------------------------------------------------------------------------
Committers == 1..MaxCommitters

Idle == [pc |-> "idle", note |-> "none", user |-> NoUser, number |-> 0,
         title |-> "none", content |-> "none", stats |-> ZeroStats,
         target |-> NoUser, permission |-> "none"]

Init ==
    /\ notes = [n \in {} |-> n]
    /\ collaborators = {}
    /\ versions = {}
    /\ nextVid = 1
    /\ deleted = {}
    /\ groups = [g \in {} |-> g]
    /\ memberships = {}
    /\ groupNotes = {}
    /\ pending = [p \in Committers |-> Idle]
    /\ last = Request("init", NoUser, "none", "ok")
    /\ emitted = <<>>

\* uuid.uuid4 primary keys: an id that no note has or had
NoteOrder == <<"n1", "n2">>
FreshIds == {i \in 1..Len(NoteOrder) : NoteOrder[i] \notin (DOMAIN notes \cup deleted)}
FreshNote == NoteOrder[CHOOSE i \in FreshIds : \A j \in FreshIds : i <= j]

\* a request that get_object() ends with 404 or 403 changes nothing
Refuse(op, u, n, outcome) ==
    /\ last' = Request(op, u, n, outcome)
    /\ emitted' = <<>>
    /\ UNCHANGED <<noteTables, groupTables, pending>>

\* ------------------------------------------------------------------------
\* NoteViewSet handlers
\* ------------------------------------------------------------------------

\* POST /notes/: perform_create -> NoteCreateSerializer.create ->
\* Note.objects.create -> note_post_save(created) -> handle_note_created,
\* then AuditLog.log_action
create(u, t, c, st, vis) ==
    /\ FreshIds # {}
    /\ nextVid <= MaxVersionRows
    /\ LET n == FreshNote
           row == Note_save([author |-> u, title |-> t, content |-> c, status |-> st,
                             visibility |-> vis, priority |-> DefaultPriority,
                             published_at |-> FALSE, archived_at |-> FALSE,
                             is_pinned |-> FALSE, comment_count |-> 0])
       IN  /\ notes' = (n :> row) @@ notes
           /\ versions' = create_note_version(versions, nextVid, n, row, u, "initial")
           /\ nextVid' = nextVid + 1
           /\ emitted' = handle_note_created_effects(n, row) \o <<Audit(u, "create", n)>>
           /\ last' = Request("create", u, n, "ok")
    /\ UNCHANGED <<collaborators, deleted, groupTables, pending>>

\* GET /notes/{id}/ and GET /notes/{id}/versions/
retrieve(u, action, n) ==
    /\ action \in SafeActions
    /\ last' = Request(action, u, n, get_object(u, action, n))
    /\ emitted' = <<>>
    /\ UNCHANGED <<noteTables, groupTables, pending>>

\* a field the request body leaves out keeps its stored value
Keep == "keep"
Given(value, stored) == IF value = Keep THEN stored ELSE value

\* PUT/PATCH /notes/{id}/: perform_update -> NoteSerializer.update ->
\* instance.save() -> note_pre_save, note_post_save -> handle_note_updated
update(u, action, n, t, c, st, vis, pr) ==
    /\ action \in {"update", "partial_update"}
    /\ IF get_object(u, action, n) # "ok"
       THEN Refuse(action, u, n, get_object(u, action, n))
       ELSE LET old == notes[n]
                new == Note_save([old EXCEPT !.title = Given(t, @), !.content = Given(c, @),
                                             !.status = Given(st, @),
                                             !.visibility = Given(vis, @),
                                             !.priority = Given(pr, @)])
            IN  /\ commits_version(old, new) => nextVid <= MaxVersionRows
                /\ notes' = [notes EXCEPT ![n] = new]
                /\ versions' = handle_note_updated_versions(versions, nextVid, n, old, new, u)
                /\ nextVid' = IF commits_version(old, new) THEN nextVid + 1 ELSE nextVid
                /\ emitted' = handle_note_updated_effects(n, old, new, u)
                /\ last' = Request(action, u, n, "ok")
                /\ UNCHANGED <<collaborators, deleted, groupTables, pending>>

\* the recipient whose channel_layer.group_send raised, as recorded with
\* the request
FailedArg(recipient) == [NoArg EXCEPT !.user = recipient]

\* PUT/PATCH /notes/{id}/ where the k-th group_send of
\* notify_note_collaborators raises: the note row, the audit row and the
\* version are stored by then, the exception leaves the receiver, save() and
\* the view, and the request is answered with an error
update_send_raises(u, action, n, t, c, st, vis, pr, k) ==
    /\ action \in {"update", "partial_update"}
    /\ get_object(u, action, n) = "ok"
    /\ LET old == notes[n]
           new == Note_save([old EXCEPT !.title = Given(t, @), !.content = Given(c, @),
                                        !.status = Given(st, @),
                                        !.visibility = Given(vis, @),
                                        !.priority = Given(pr, @)])
           sends == notify_note_collaborators(n, "note_updated")
       IN  /\ changed_fields(old, new) # {}
           /\ k \in 1..Len(sends)
           /\ commits_version(old, new) => nextVid <= MaxVersionRows
           /\ notes' = [notes EXCEPT ![n] = new]
           /\ versions' = handle_note_updated_versions(versions, nextVid, n, old, new, u)
           /\ nextVid' = IF commits_version(old, new) THEN nextVid + 1 ELSE nextVid
           /\ emitted' = <<Audit(u, "update", n)>> \o SubSeq(sends, 1, k - 1)
           /\ last' = [Request(action, u, n, "error") EXCEPT !.arg = FailedArg(sends[k].who)]
    /\ UNCHANGED <<collaborators, deleted, groupTables, pending>>

\* POST publish / archive: note.status = s; note.save(update_fields=['status']).
\* Only the status column is written; the receivers compare the instance
\* with the stored row, and no _updated_by is set on the instance.
set_status(u, action, n) ==
    /\ action \in {"publish", "archive"}
    /\ IF get_object(u, action, n) # "ok"
       THEN Refuse(action, u, n, get_object(u, action, n))
       ELSE LET old == notes[n]
                s == IF action = "publish" THEN "published" ELSE "archived"
                instance == Note_save([old EXCEPT !.status = s])
            IN  /\ notes' = [notes EXCEPT ![n].status = s]
                /\ emitted' = handle_note_updated_effects(n, old, instance, NoUser)
                /\ last' = Request(action, u, n, "ok")
                /\ UNCHANGED <<collaborators, versions, nextVid, deleted, groupTables, pending>>

\* note.versions.get(id=version_id) over the rows of any note
note_versions_get_AnyNote(vs, n, vid) == {v \in vs : v.id = vid}

\* note.versions.get(id=version_id): the rows it finds (none: DoesNotExist)
note_versions_get(vs, n, vid) == {v \in NoteVersions(vs, n) : v.id = vid}

\* POST toggle_pin: note.is_pinned = not note.is_pinned;
\* note.save(update_fields=['is_pinned']); handle_note_updated finds no
\* changed field
toggle_pin(u, n) ==
    IF get_object(u, "toggle_pin", n) # "ok"
    THEN Refuse("toggle_pin", u, n, get_object(u, "toggle_pin", n))
    ELSE LET old == notes[n]
             instance == Note_save([old EXCEPT !.is_pinned = ~@])
         IN  /\ notes' = [notes EXCEPT ![n].is_pinned = ~@]
             /\ emitted' = handle_note_updated_effects(n, old, instance, NoUser)
             /\ last' = Request("toggle_pin", u, n, "ok")
             /\ UNCHANGED <<collaborators, versions, nextVid, deleted, groupTables, pending>>

\* POST restore_version: 404 when the version is not one of note.versions
restore_version(u, n, vid) ==
    IF get_object(u, "restore_version", n) # "ok"
    THEN Refuse("restore_version", u, n, get_object(u, "restore_version", n))
    ELSE IF note_versions_get(versions, n, vid) = {}
    THEN /\ last' = [Request("restore_version", u, n, "not_found")
                        EXCEPT !.arg = VersionArg(vid)]
         /\ emitted' = <<>>
         /\ UNCHANGED <<noteTables, groupTables, pending>>
    ELSE LET old == notes[n]
             version == CHOOSE v \in note_versions_get(versions, n, vid) : TRUE
             new == Note_save([old EXCEPT !.title = version.title,
                                          !.content = version.content])
         IN  /\ commits_version(old, new) => nextVid <= MaxVersionRows
             /\ notes' = [notes EXCEPT ![n] = new]
             /\ versions' = handle_note_updated_versions(versions, nextVid, n, old, new, u)
             /\ nextVid' = IF commits_version(old, new) THEN nextVid + 1 ELSE nextVid
             /\ emitted' = handle_note_updated_effects(n, old, new, u)
             /\ last' = [Request("restore_version", u, n, "ok")
                            EXCEPT !.arg = VersionArg(vid)]
             /\ UNCHANGED <<collaborators, deleted, groupTables, pending>>

\* DELETE /notes/{id}/: perform_destroy -> AuditLog.log_action, instance.delete()
\* (cascade to collaborators, versions, group links), note_post_delete
destroy(u, n) ==
    IF get_object(u, "destroy", n) # "ok"
    THEN Refuse("destroy", u, n, get_object(u, "destroy", n))
    ELSE /\ notes' = [m \in DOMAIN notes \ {n} |-> notes[m]]
         /\ deleted' = deleted \cup {n}
         /\ collaborators' = {r \in collaborators : r.note # n}
         /\ versions' = {v \in versions : v.note # n}
         /\ groupNotes' = {l \in groupNotes : l.note # n}
         /\ emitted' = <<Audit(u, "delete", n), Audit(u, "delete", n)>>
         /\ last' = Request("destroy", u, n, "ok")
         /\ UNCHANGED <<nextVid, groups, memberships, pending>>

note_collaborator_post_save_AlsoInviter(r) ==
    <<Notification(r.user, r.invited_by, "note_shared", r.note),
      Audit(r.invited_by, "share", r.note)>>
    \o notify_user_event(r.user, "note_shared", r.note)
    \o notify_user_event(r.invited_by, "note_shared", r.note)

\* note_collaborator_post_save(created=True): Notification row (when the type
\* exists), audit row, web-socket send, in this order
note_collaborator_post_save(r) ==
    (IF "note_shared" \in NotificationTypes
     THEN <<Notification(r.user, r.invited_by, "note_shared", r.note)>> ELSE <<>>)
    \o <<Audit(r.invited_by, "share", r.note)>>
    \o notify_user_event(r.user, "note_shared", r.note)

\* POST share with user_ids = [target]: NoteCollaborator.objects.get_or_create;
\* an existing row is returned as it is.  note.save(update_fields=['share_count'])
\* finds no changed field.
share(u, n, target, permission) ==
    IF get_object(u, "share", n) # "ok"
    THEN Refuse("share", u, n, get_object(u, "share", n))
    ELSE LET r == [note |-> n, user |-> target, permission |-> permission,
                   invited_by |-> u, is_active |-> TRUE]
             created == CollaboratorRows(n, target) = {}
         IN  /\ collaborators' = IF created THEN collaborators \cup {r} ELSE collaborators
             /\ emitted' = IF created THEN note_collaborator_post_save(r) ELSE <<>>
             /\ last' = [Request("share", u, n, "ok")
                            EXCEPT !.arg = ShareArg(target, permission)]
             /\ UNCHANGED <<notes, versions, nextVid, deleted, groupTables, pending>>

\* POST unshare: NoteCollaborator.objects.get(note, user_id).delete(), 404
\* when there is no row
unshare(u, n, target) ==
    IF get_object(u, "unshare", n) # "ok"
    THEN Refuse("unshare", u, n, get_object(u, "unshare", n))
    ELSE IF CollaboratorRows(n, target) = {}
    THEN /\ last' = [Request("unshare", u, n, "not_found")
                        EXCEPT !.arg = ShareArg(target, "none")]
         /\ emitted' = <<>>
         /\ UNCHANGED <<noteTables, groupTables, pending>>
    ELSE /\ collaborators' = collaborators \ CollaboratorRows(n, target)
         /\ emitted' = <<>>
         /\ last' = [Request("unshare", u, n, "ok")
                        EXCEPT !.arg = ShareArg(target, "none")]
         /\ UNCHANGED <<notes, versions, nextVid, deleted, groupTables, pending>>

\* NoteCollaborator.is_active is a stored column that no view writes; a row
\* is switched off or on by saving it through the ORM
\* (note_collaborator_post_save with created=False does nothing)
set_is_active(n, target, b) ==
    /\ \E r \in CollaboratorRows(n, target) : r.is_active # b
    /\ collaborators' = {IF r.note = n /\ r.user = target
                         THEN [r EXCEPT !.is_active = b] ELSE r : r \in collaborators}
    /\ emitted' = <<>>
    /\ last' = Request("set_is_active", NoUser, n, "ok")
    /\ UNCHANGED <<notes, versions, nextVid, deleted, groupTables, pending>>

\* comment_post_save(created=True) for a comment of `author` on note n that
\* was stored through the ORM.  The rows of notes_comments are kept as their
\* number per note (comment_count, written with update_fields; the receivers
\* of that save find no changed field).  Then, in this order: a Notification
\* row for the note's author unless the author wrote the comment, one for
\* every other active collaborator, the audit row, the web-socket sends of
\* notify_note_event.
comment_notifications(author, n) ==
    IF "note_commented" \notin NotificationTypes THEN <<>>
    ELSE (IF author # notes[n].author
          THEN <<Notification(notes[n].author, author, "note_commented", n)>> ELSE <<>>)
         \o [i \in 1..Cardinality(ActiveCollaborators(n) \ {author, notes[n].author}) |->
                Notification(SetToSeq(ActiveCollaborators(n) \ {author, notes[n].author})[i],
                             author, "note_commented", n)]

comment_post_save(author, n) ==
    /\ Exists(n)
    /\ notes[n].comment_count < MaxComments
    /\ notes' = [notes EXCEPT ![n].comment_count = @ + 1]
    /\ emitted' = comment_notifications(author, n)
                   \o <<Audit(author, "create", n)>>
                   \o notify_note_event(n, notes[n].author, "comment_added")
    /\ last' = Request("comment", author, n, "ok")
    /\ UNCHANGED <<collaborators, versions, nextVid, deleted, groupTables, pending>>

\* ------------------------------------------------------------------------
\* Groups (groups/models.py)
\* ------------------------------------------------------------------------

\* Group.save: is_new = self.pk is None.  Group.id is a UUIDField with
\* default=uuid.uuid4, so pk is already set on an instance that was never saved
Group_is_new == FALSE

GroupMembershipRows(g, u) == {m \in memberships : m.group = g /\ m.user = u}

\* Group.save of a group that is not stored yet
Group_save(g, owner) ==
    /\ g \notin DOMAIN groups
    /\ groups' = (g :> [owner |-> owner]) @@ groups
    /\ memberships' = IF Group_is_new
                      THEN memberships \cup {[group |-> g, user |-> owner, role |-> "owner",
                                              permission |-> "admin", is_active |-> TRUE]}
                      ELSE memberships
    /\ emitted' = <<>>
    /\ last' = Request("group_save", owner, g, "ok")
    /\ UNCHANGED <<noteTables, groupNotes, pending>>

\* GroupInvitation.accept of a pending invitation (role, permission) for u:
\* GroupMembership.objects.get_or_create, an existing row is re-activated
GroupInvitation_accept(g, u, role, permission) ==
    /\ g \in DOMAIN groups
    /\ memberships' =
          IF GroupMembershipRows(g, u) = {}
          THEN memberships \cup {[group |-> g, user |-> u, role |-> role,
                                  permission |-> permission, is_active |-> TRUE]}
          ELSE {IF m.group = g /\ m.user = u THEN [m EXCEPT !.is_active = TRUE] ELSE m :
                   m \in memberships}
    /\ emitted' = <<>>
    /\ last' = Request("invitation_accept", u, g, "ok")
    /\ UNCHANGED <<noteTables, groups, groupNotes, pending>>

\* a GroupNote row (unique_together = [group, note]) linking a note to a group
GroupNote_create(g, n, shared_by, permission) ==
    /\ g \in DOMAIN groups
    /\ Exists(n)
    /\ ~\E l \in groupNotes : l.group = g /\ l.note = n
    /\ groupNotes' = groupNotes \cup {[group |-> g, note |-> n, shared_by |-> shared_by,
                                       permission |-> permission]}
    /\ emitted' = <<>>
    /\ last' = Request("group_note_create", shared_by, n, "ok")
    /\ UNCHANGED <<noteTables, groups, memberships, pending>>

\* ------------------------------------------------------------------------
\* Two requests inside create_note_version at the same time
\* ------------------------------------------------------------------------

\* update() up to and including the read of note.versions.first():
\* the note row is saved, the audit row written, the next number and the
\* statistics against the row just read computed
begin_commit(p, u, n, t, c) ==
    /\ pending[p].pc = "idle"
    /\ get_object(u, "update", n) = "ok"
    /\ LET old == notes[n]
           new == Note_save([old EXCEPT !.title = t, !.content = c])
       IN  /\ commits_version(old, new)
           /\ notes' = [notes EXCEPT ![n] = new]
           /\ pending' = [pending EXCEPT ![p] =
                  [pc |-> "read", note |-> n, user |-> u,
                   number |-> next_version_number(versions, n),
                   title |-> t, content |-> c,
                   stats |-> version_stats(versions, n, c),
                   target |-> NoUser, permission |-> "none"]]
           /\ emitted' = <<Audit(u, "update", n)>>
           /\ last' = Request("update", u, n, "pending")
    /\ UNCHANGED <<collaborators, versions, nextVid, deleted, groupTables>>

\* the rest of create_note_version: NoteVersion.objects.create fails with
\* IntegrityError on unique_together = [note, version_number]; otherwise the
\* row is inserted, old rows are pruned and the collaborators are notified
finish_commit(p) ==
    /\ pending[p].pc = "read"
    /\ LET q == pending[p]
       IN  IF \E v \in NoteVersions(versions, q.note) : v.version_number = q.number
           THEN /\ pending' = [pending EXCEPT ![p].pc = "failed"]
                /\ emitted' = <<>>
                /\ last' = Request("update", q.user, q.note, "error")
                /\ UNCHANGED <<noteTables, groupTables>>
           ELSE /\ nextVid <= MaxVersionRows
                /\ versions' = prune_versions(
                       versions \cup {version_row(nextVid, q.note, q, q.user, q.number,
                                                   "update", q.stats)},
                       q.note)
                /\ nextVid' = nextVid + 1
                /\ pending' = [pending EXCEPT ![p].pc = "done"]
                /\ emitted' = notify_note_collaborators(q.note, "note_updated")
                /\ last' = Request("update", q.user, q.note, "ok")
                /\ UNCHANGED <<notes, collaborators, deleted, groupTables>>

\* ------------------------------------------------------------------------
\* Two share requests inside get_or_create at the same time
\* ------------------------------------------------------------------------

\* an insert into notes_collaborators with no unique constraint to stop it
unique_together_violated_NoConstraint(n, u) == FALSE

\* NoteCollaborator.Meta.unique_together = ['note', 'user']: an insert for
\* (n, u) fails with IntegrityError when a row for the pair is stored
unique_together_violated(n, u) == CollaboratorRows(n, u) # {}

\* share() up to and including the lookup of get_or_create: a row that is
\* found is returned (created = False), otherwise the insert is still to come
share_get(p, u, n, target, permission) ==
    /\ pending[p].pc = "idle"
    /\ get_object(u, "share", n) = "ok"
    /\ pending' = [pending EXCEPT ![p] =
           [Idle EXCEPT !.pc = IF CollaboratorRows(n, target) # {} THEN "found" ELSE "create",
                        !.note = n, !.user = u, !.target = target,
                        !.permission = permission]]
    /\ emitted' = <<>>
    /\ last' = [Request("share", u, n,
                        IF CollaboratorRows(n, target) # {} THEN "ok" ELSE "pending")
                   EXCEPT !.arg = ShareArg(target, permission)]
    /\ UNCHANGED <<noteTables, groupTables>>

\* the insert of get_or_create: on IntegrityError the row that is there is
\* fetched and returned (created = False); otherwise the row is stored and
\* note_collaborator_post_save runs
share_create(p) ==
    /\ pending[p].pc = "create"
    /\ LET q == pending[p]
           r == [note |-> q.note, user |-> q.target, permission |-> q.permission,
                 invited_by |-> q.user, is_active |-> TRUE]
       IN  /\ IF unique_together_violated(q.note, q.target)
              THEN /\ pending' = [pending EXCEPT ![p].pc = "conflict"]
                   /\ emitted' = <<>>
                   /\ UNCHANGED collaborators
              ELSE /\ pending' = [pending EXCEPT ![p].pc = "created"]
                   /\ emitted' = note_collaborator_post_save(r)
                   /\ collaborators' = collaborators \cup {r}
           /\ last' = [Request("share", q.user, q.note, "ok")
                          EXCEPT !.arg = ShareArg(q.target, q.permission)]
    /\ UNCHANGED <<notes, versions, nextVid, deleted, groupTables>>

\* ------------------------------------------------------------------------
\* Specifications
\* ------------------------------------------------------------------------

\* Sharing and access.  One note, created by alice; grants are given to alice
\* (at level view) and bob, carol never holds one; requests leave title and
\* content alone.
\* "n2" is the id of a note that does not exist.
AccessNext ==
    \/ \E st \in {"draft", "published"}, vis \in {"private", "public"} :
          /\ DOMAIN notes \cup deleted = {}
          /\ create("alice", "t1", "c1", st, vis)
    \/ \E u \in Users, n \in NoteIds : retrieve(u, "retrieve", n)
    \/ \E u \in Users, st \in {"draft", "published", Keep},
          vis \in {"private", "public", Keep} :
          update(u, "partial_update", "n1", Keep, Keep, st, vis, Keep)
    \/ \E u \in Users, a \in {"publish", "archive"} : set_status(u, a, "n1")
    \/ \E u \in Users, target \in {"alice", "bob"}, p \in PERMISSION_CHOICES :
          /\ target = "alice" => p = "view"
          /\ share(u, "n1", target, p)
    \/ \E u \in Users, target \in {"alice", "bob"} : unshare(u, "n1", target)
    \/ \E target \in {"alice", "bob"}, b \in BOOLEAN : set_is_active("n1", target, b)
    \/ \E u \in Users : destroy(u, "n1")

AccessSpec == Init /\ [][AccessNext]_vars

\* Groups.  One note of alice, one group; users join the group through
\* invitations and the note is linked to the group.
GroupNext ==
    \/ /\ DOMAIN notes \cup deleted = {}
       /\ create("alice", "t1", "c1", "draft", "private")
    \/ \E owner \in {"alice", "bob"} : Group_save("g1", owner)
    \/ \E u \in {"bob", "carol"}, p \in PERMISSION_CHOICES :
          GroupInvitation_accept("g1", u, "member", p)
    \/ \E p \in GROUP_NOTE_PERMISSION_CHOICES : GroupNote_create("g1", "n1", "alice", p)
    \/ \E u \in Users : retrieve(u, "retrieve", "n1")
    \/ \E u \in Users, vis \in {"private", "shared"} :
          update(u, "partial_update", "n1", Keep, Keep, Keep, vis, Keep)

GroupSpec == Init /\ [][GroupNext]_vars

\* Version history, one request at a time: alice creates notes titled t1,
\* retitles them t2, rewrites their content and restores versions.
VersionNext ==
    \/ \E c \in Contents : create("alice", "t1", c, "draft", "private")
    \/ \E n \in NoteIds, t \in {"t2", Keep}, c \in Contents \cup {Keep} :
          update("alice", "update", n, t, c, Keep, Keep, Keep)
    \/ \E n \in NoteIds, vid \in 1..MaxVersionRows : restore_version("alice", n, vid)

VersionSpec == Init /\ [][VersionNext]_vars

\* Version commits that overlap: alice's note is rewritten by MaxCommitters
\* requests, each of which may be anywhere between reading the last version
\* number and inserting its row.
ConcNext ==
    \/ /\ DOMAIN notes \cup deleted = {}
       /\ \E c \in Contents : create("alice", "t1", c, "draft", "private")
    \/ \E p \in Committers, t \in Titles, c \in Contents :
          begin_commit(p, "alice", "n1", t, c)
    \/ \E p \in Committers : finish_commit(p)

ConcSpec == Init /\ [][ConcNext]_vars

\* Commits over texts of several lines: alice writes one note and rewrites
\* its content, and now and then its title, with texts of DiffContents.
DiffNext ==
    \/ /\ DOMAIN notes \cup deleted = {}
       /\ \E c \in DiffContents : create("alice", "t1", c, "draft", "private")
    \/ \E t \in {"t2", Keep}, c \in DiffContents :
          update("alice", "update", "n1", t, c, Keep, Keep, Keep)

DiffSpec == Init /\ [][DiffNext]_vars

\* Share requests that overlap: alice's note is shared with bob and carol
\* by MaxCommitters requests of alice and of bob (once he is admin), each of
\* which may be anywhere between the lookup and the insert of get_or_create,
\* while grants are also revoked.
ShareNext ==
    \/ /\ DOMAIN notes \cup deleted = {}
       /\ create("alice", "t1", "c1", "draft", "private")
    \/ \E p \in Committers, u \in {"alice", "bob"}, target \in {"bob", "carol"},
          permission \in {"view", "admin"} : share_get(p, u, "n1", target, permission)
    \/ \E p \in Committers : share_create(p)
    \/ \E target \in {"bob", "carol"} : unshare("alice", "n1", target)

ShareSpec == Init /\ [][ShareNext]_vars

\* Updates.  One note of alice that bob may read or edit; both send PUT and
\* PATCH bodies with any of title, content, status, visibility and priority,
\* and toggle the pin.
UpdateNext ==
    \/ /\ DOMAIN notes \cup deleted = {}
       /\ create("alice", "t1", "c1", "draft", "private")
    \/ \E p \in {"view", "edit"} : share("alice", "n1", "bob", p)
    \/ \E u \in {"alice", "bob"}, action \in {"update", "partial_update"},
          t \in {"t2", Keep}, c \in {"c2", Keep}, st \in {"published", Keep},
          vis \in {"shared", Keep}, pr \in {"5", Keep} :
          update(u, action, "n1", t, c, st, vis, pr)
    \/ \E u \in {"alice", "bob"} : toggle_pin(u, "n1")

UpdateSpec == Init /\ [][UpdateNext]_vars

\* Events.  One note of alice, shared by her with herself and carol at view
\* and with bob at edit; alice and bob edit and comment on the note, and a
\* web-socket send of an update may fail.
EventNext ==
    \/ /\ DOMAIN notes \cup deleted = {}
       /\ create("alice", "t1", "c1", "draft", "private")
    \/ \E target \in Users :
          share("alice", "n1", target, IF target = "bob" THEN "edit" ELSE "view")
    \/ \E u \in {"alice", "bob"}, t \in {"t2", Keep}, c \in {"c2", Keep},
          vis \in {"shared", Keep} :
          update(u, "partial_update", "n1", t, c, Keep, vis, Keep)
    \/ \E u \in {"alice", "bob"}, vis \in {"private", "shared"}, k \in 1..Cardinality(Users) :
          update_send_raises(u, "partial_update", "n1", Keep, Keep, Keep, vis, Keep, k)
    \/ \E u \in {"alice", "bob"} :
          /\ Exists("n1")
          /\ get_queryset(u, "n1")
          /\ comment_post_save(u, "n1")

EventSpec == Init /\ [][EventNext]_vars

\* ------------------------------------------------------------------------
\* Properties of access resolution (checked under AccessSpec)
\* ------------------------------------------------------------------------
PublicPublished(n) == notes[n].visibility = "public" /\ notes[n].status = "published"

\* neither the author nor an active collaborator of the note
Outsider(u, n) == notes[n].author # u /\ ~ActiveCollaborator(n, u)

AuthorActions == {"retrieve", "versions", "update", "partial_update",
                  "share", "unshare", "destroy"}

\* C1: in every reachable state, whatever grant rows exist, the author of a
\* note resolves to admin on it and is allowed to read, update, share,
\* unshare and delete it.
C1_AuthorIsAdmin ==
    \A n \in DOMAIN notes :
        /\ get_user_permission(notes[n].author, n) = "admin"
        /\ \A a \in AuthorActions : get_object(notes[n].author, a, n) = "ok"

\* the author holds an inactive view-level row on the own note and has just
\* updated the note
C1_Witness ==
    \E n \in DOMAIN notes :
        /\ \E r \in CollaboratorRows(n, notes[n].author) :
              r.permission = "view" /\ ~r.is_active
        /\ last = Request("partial_update", notes[n].author, n, "ok")

\* C2: a grant row with is_active = FALSE contributes nothing: a non-author
\* whose only row on a note that is not public+published is inactive resolves
\* to no permission and is denied every read and write action.
C2_InactiveGrantGivesNothing ==
    \A n \in DOMAIN notes : \A u \in Users :
        ( /\ notes[n].author # u
          /\ CollaboratorRows(n, u) # {}
          /\ \A r \in CollaboratorRows(n, u) : ~r.is_active
          /\ ~PublicPublished(n) )
        => /\ get_user_permission(u, n) = "none"
           /\ \A a \in ViewActions : get_object(u, a, n) # "ok"

\* bob's admin row was switched off and his read was then refused
C2_Witness ==
    \E n \in DOMAIN notes :
        /\ \E r \in CollaboratorRows(n, "bob") : r.permission = "admin" /\ ~r.is_active
        /\ notes[n].author # "bob"
        /\ ~PublicPublished(n)
        /\ last = Request("retrieve", "bob", n, "not_found")

\* C4: a delete succeeds only for the author of the note; any other caller,
\* an active admin collaborator included, is refused and the note stays.
C4_DeleteOnlyByAuthor ==
    /\ [](\A n \in DOMAIN notes : \A u \in Users :
             u # notes[n].author => get_object(u, "destroy", n) # "ok")
    /\ [][ /\ \A n \in DOMAIN notes :
                n \notin DOMAIN notes' => last' = Request("destroy", notes[n].author, n, "ok")
           /\ (last'.op = "destroy" /\ last'.outcome # "ok") => notes' = notes ]_vars

\* bob holds an active admin grant, his delete was answered 403, the note exists
C4_Witness ==
    \E n \in DOMAIN notes :
        /\ \E r \in CollaboratorRows(n, "bob") : r.permission = "admin" /\ r.is_active
        /\ notes[n].author # "bob"
        /\ last = Request("destroy", "bob", n, "forbidden")

\* the callers share and unshare are open to
MayShare(u, n) ==
    /\ Exists(n)
    /\ \/ notes[n].author = u
       \/ \E r \in CollaboratorRows(n, u) : r.is_active /\ r.permission = "admin"

\* C5: share and unshare succeed only for the author or an active collaborator
\* whose level is exactly admin; for any other caller the request is refused
\* and the grant rows stay as they are.
C5_ShareOnlyByAdmin ==
    /\ [](\A n \in DOMAIN notes : \A u \in Users : \A a \in {"share", "unshare"} :
             get_object(u, a, n) = "ok" => MayShare(u, n))
    /\ [][ (last'.op \in {"share", "unshare"} /\ ~MayShare(last'.user, last'.note))
             => /\ last'.outcome \in {"forbidden", "not_found"}
                /\ collaborators' = collaborators ]_vars

\* bob holds an active edit grant and his share request was answered 403
C5_Witness ==
    \E n \in DOMAIN notes :
        /\ \E r \in CollaboratorRows(n, "bob") : r.permission = "edit" /\ r.is_active
        /\ notes[n].author # "bob"
        /\ last = Request("share", "bob", n, "forbidden")

\* C6: a user who is neither author nor active collaborator can read a note
\* exactly when it is public and published, and can never write it; a public
\* note that is draft or archived gives that user nothing.
C6_PublicReadOnly ==
    \A n \in DOMAIN notes : \A u \in Users :
        Outsider(u, n) =>
            /\ \A a \in SafeActions :
                  /\ get_object(u, a, n) = "ok" <=> PublicPublished(n)
                  /\ has_object_permission(u, a, n) <=> PublicPublished(n)
            /\ \A a \in UnsafeActions : get_object(u, a, n) # "ok"

\* carol, who holds no grant, has read a public published note
C6_Witness ==
    \E n \in DOMAIN notes :
        /\ PublicPublished(n)
        /\ Outsider("carol", n)
        /\ last = Request("retrieve", "carol", n, "ok")

\* C7: a caller with no access to a private note gets, for every action, the
\* 404 that a missing note gives, never 403; 403 goes only to callers who are
\* able to read the note.
C7_NotFoundHidesExistence ==
    \A u \in Users : \A n \in NoteIds : \A a \in ViewActions :
        /\ ~Exists(n) => get_object(u, a, n) = "not_found"
        /\ (Exists(n) /\ notes[n].visibility = "private" /\ get_user_permission(u, n) = "none")
              => get_object(u, a, n) = "not_found"
        /\ get_object(u, a, n) = "forbidden"
              => (Exists(n) /\ get_object(u, "retrieve", n) = "ok")

\* carol's write to an existing private note she has no grant on was answered 404
C7_Witness ==
    \E n \in DOMAIN notes :
        /\ notes[n].visibility = "private"
        /\ get_user_permission("carol", n) = "none"
        /\ last = Request("partial_update", "carol", n, "not_found")

\* ------------------------------------------------------------------------
\* Group path (checked under GroupSpec)
\* ------------------------------------------------------------------------

\* C3: for a user with an active membership in a group the note is shared
\* into, the group path contributes min(link level, member's permission) to
\* the effective permission on the note, so the user resolves to at least
\* that level and can read the note (link comment, member admin: comment).
C3_GroupCeiling ==
    \A n \in DOMAIN notes : \A l \in groupNotes : \A m \in memberships :
        (l.note = n /\ m.group = l.group /\ m.is_active /\ m.user # notes[n].author)
        => /\ PermRank(get_user_permission(m.user, n))
                >= Min(PermRank(l.permission), PermRank(m.permission))
           /\ get_object(m.user, "retrieve", n) = "ok"

\* ------------------------------------------------------------------------
\* Version numbering under overlapping commits (checked under ConcSpec)
\* ------------------------------------------------------------------------
Finished(p) == pending[p].pc \in {"done", "failed"}

\* C8: once N overlapping commits to a note whose highest version number was
\* k are over, all N have completed and the numbers they were given are
\* exactly k+1 .. k+N.
C8_ConcurrentNumbering ==
    (\A p \in Committers : Finished(p))
    => LET k == 1
       IN  /\ \A p \in Committers : pending[p].pc = "done"
           /\ {pending[p].number : p \in Committers} = (k + 1)..(k + MaxCommitters)

\* ------------------------------------------------------------------------
\* Version history, one request at a time (checked under VersionSpec)
\* ------------------------------------------------------------------------
Numbers(vs, n) == {v.version_number : v \in NoteVersions(vs, n)}

\* C9: the first version is numbered 1 and comes into being with the note,
\* every later commit gets the previous maximum plus 1, and the stored
\* numbers of a note are pairwise distinct and contiguous up to the maximum.
C9_SequentialNumbering ==
    /\ [](\A n \in DOMAIN notes :
             /\ Numbers(versions, n) # {}
             /\ Cardinality(NoteVersions(versions, n)) = Cardinality(Numbers(versions, n))
             /\ Numbers(versions, n) =
                   (MaxOf(Numbers(versions, n)) - Cardinality(Numbers(versions, n)) + 1)
                       .. MaxOf(Numbers(versions, n)))
    /\ [][\A n \in DOMAIN notes' :
             LET added == NoteVersions(versions', n) \ NoteVersions(versions, n)
             IN  IF n \notin DOMAIN notes
                 THEN /\ Cardinality(NoteVersions(versions', n)) = 1
                      /\ Numbers(versions', n) = {1}
                 ELSE /\ Cardinality(added) <= 1
                      /\ \A v \in added :
                            v.version_number = MaxOf(Numbers(versions, n)) + 1]_vars

\* a note whose first version is gone and whose latest version was committed
\* by restoring an earlier one
C9_Witness ==
    \E n \in DOMAIN notes :
        /\ 1 \notin Numbers(versions, n)
        /\ MaxOf(Numbers(versions, n)) >= 3
        /\ last.op = "restore_version" /\ last.user = "alice"
        /\ last.note = n /\ last.outcome = "ok"

\* the M rows of highest version number
Newest(rows) ==
    {v \in rows : Cardinality({w \in rows : w.version_number > v.version_number})
                     < MAX_NOTE_VERSIONS}

\* C10: after every commit a note has at most MAX_NOTE_VERSIONS versions; a
\* commit that exceeds the limit deletes exactly the lowest-numbered surplus,
\* the highest-numbered ones remain and no stored row changes its number.
C10_Retention ==
    /\ [](\A n \in DOMAIN notes :
             Cardinality(NoteVersions(versions, n)) <= MAX_NOTE_VERSIONS)
    /\ [][\A n \in DOMAIN notes \cap DOMAIN notes' :
             LET before == NoteVersions(versions, n)
                 after == NoteVersions(versions', n)
             IN  /\ after = Newest(before \cup after)
                 /\ \A v \in before : \A w \in after : v.id = w.id => w = v]_vars

\* a commit has just pushed the oldest version of a full history out
C10_Witness ==
    \E n \in DOMAIN notes :
        /\ Cardinality(NoteVersions(versions, n)) = MAX_NOTE_VERSIONS
        /\ MaxOf(Numbers(versions, n)) = MAX_NOTE_VERSIONS + 1
        /\ last = Request("update", "alice", n, "ok")

\* ------------------------------------------------------------------------
\* Note row and version row written together (checked under ConcSpec)
\* ------------------------------------------------------------------------

\* C11: a change of title or content and the version that records it are
\* stored together or not at all: in every reachable state, a commit that
\* failed or is under way included, the stored title and content of a note
\* equal those of its highest-numbered version.
C11_CommitTogether ==
    \A n \in DOMAIN notes :
        NoteVersions(versions, n) # {}
        => /\ notes[n].title = LatestVersion(versions, n).title
           /\ notes[n].content = LatestVersion(versions, n).content

\* ------------------------------------------------------------------------
\* Diff statistics of a commit (checked under DiffSpec)
\* ------------------------------------------------------------------------

\* the lines of new that are no line of old
OnlyIn(new, old) ==
    SelectSeq(splitlines(new), LAMBDA l : l \notin Range(splitlines(old)))

\* the line model: whole lines present on one side only, with all their
\* characters and all their words
LineModel(old_content, new_content) ==
    LET added == OnlyIn(new_content, old_content)
        removed == OnlyIn(old_content, new_content)
    IN  [characters_added |-> Sum([i \in 1..Len(added) |-> Len(added[i])]),
         characters_removed |-> Sum([i \in 1..Len(removed) |-> Len(removed[i])]),
         words_added |-> Sum([i \in 1..Len(added) |-> split_len(added[i])]),
         words_removed |-> Sum([i \in 1..Len(removed) |-> split_len(removed[i])])]

StatsOf(v) == [characters_added |-> v.characters_added,
               characters_removed |-> v.characters_removed,
               words_added |-> v.words_added, words_removed |-> v.words_removed]

\* C14: the statistics of a commit follow the line model: added words and
\* characters are those of the lines present only in the new content,
\* removed ones those of the lines present only in the old content, whole
\* lines only; version 1, which has no prior version, has all four zero.
C14_LineModelStats ==
    \A v \in versions :
        /\ v.version_number = 1 => StatsOf(v) = ZeroStats
        /\ \A w \in NoteVersions(versions, v.note) :
              w.version_number + 1 = v.version_number
              => StatsOf(v) = LineModel(Text(w.content), Text(v.content))

\* ------------------------------------------------------------------------
\* Restoring a version (checked under VersionSpec)
\* ------------------------------------------------------------------------

\* C12: every successful restore of a version V of the note appends a new
\* version numbered previous maximum + 1 whose title and content are V's;
\* no stored version is changed, and the statistics of the new version are
\* those of the diff against the version that was the latest before the
\* restore.
C12_RestoreAppends ==
    [][(last'.op = "restore_version" /\ last'.outcome = "ok")
       => LET n == last'.note
              V == CHOOSE v \in NoteVersions(versions, n) : v.id = last'.arg.version
              prev == LatestVersion(versions, n)
              added == NoteVersions(versions', n) \ NoteVersions(versions, n)
          IN  /\ Cardinality(added) = 1
              /\ \A v \in added :
                    /\ v.version_number = prev.version_number + 1
                    /\ v.title = V.title /\ v.content = V.content
                    /\ StatsOf(v) = diff_stats(Text(prev.content), Text(V.content))
              /\ \A v \in NoteVersions(versions, n) : \A w \in NoteVersions(versions', n) :
                    v.id = w.id => w = v]_vars

\* C13: a restore that names a version id which is not one of the note's
\* versions (a version of another note, or no version at all) is answered
\* NotFound and leaves the note, the version rows and the audit log as
\* they were.
C13_ForeignVersionNotFound ==
    [][(/\ last'.op = "restore_version"
        /\ last'.arg.version # 0
        /\ ~\E v \in NoteVersions(versions, last'.note) : v.id = last'.arg.version)
       => /\ last'.outcome = "not_found"
          /\ notes' = notes
          /\ versions' = versions
          /\ emitted' = <<>>]_vars

\* alice's restore of her note named a stored version of her other note and
\* was answered 404
C13_Witness ==
    /\ last.op = "restore_version"
    /\ last.outcome = "not_found"
    /\ last.note \in DOMAIN notes
    /\ \E v \in versions : v.id = last.arg.version /\ v.note # last.note

\* ------------------------------------------------------------------------
\* Grant rows under share and unshare (checked under AccessSpec)
\* ------------------------------------------------------------------------

\* C15: a share that names a user who already holds an active grant on the
\* note at another level sets that grant to the requested level and adds no
\* second row; after a re-share at edit the collaborator may update the note.
C15_ReshareChangesLevel ==
    [][\A n \in NoteIds : \A target \in Users :
          (/\ last'.op = "share" /\ last'.note = n /\ last'.outcome = "ok"
           /\ last'.arg.user = target
           /\ \E r \in CollaboratorRows(n, target) :
                 r.is_active /\ r.permission # last'.arg.permission)
          => /\ Cardinality(CollaboratorRows(n, target)') = 1
             /\ \A r \in CollaboratorRows(n, target)' :
                   r.is_active /\ r.permission = last'.arg.permission
             /\ last'.arg.permission = "edit"
                   => (get_object(target, "update", n) = "ok")']_vars

\* ------------------------------------------------------------------------
\* Overlapping share requests (checked under ShareSpec)
\* ------------------------------------------------------------------------

\* C16: in every reachable state, whatever the interleaving of share
\* requests naming the same (note, user) pair, at most one grant row exists
\* for the pair.
C16_OneRowPerPair ==
    \A n \in NoteIds : \A u \in Users : Cardinality(CollaboratorRows(n, u)) <= 1

\* two share requests for the same pair both found no row; one inserted
\* it, the insert of the other was rejected
C16_Witness ==
    \E p \in Committers : \E q \in Committers :
        /\ pending[p].pc = "created"
        /\ pending[q].pc = "conflict"
        /\ pending[p].note = pending[q].note
        /\ pending[p].target = pending[q].target
        /\ CollaboratorRows(pending[p].note, pending[p].target) # {}

\* ------------------------------------------------------------------------
\* Revoking a grant (checked under AccessSpec)
\* ------------------------------------------------------------------------

\* rows of notes_collaborators of a note
NoteCollaboratorRows(rows, n) == {r \in rows : r.note = n}

\* C17: a successful unshare switches the grant off and keeps the row: the
\* row for (note, user) is still stored afterwards with is_active = FALSE,
\* and the note has no fewer grant rows than before.
C17_UnshareDeactivates ==
    [][\A n \in NoteIds : \A target \in Users :
          (/\ last'.op = "unshare" /\ last'.note = n /\ last'.outcome = "ok"
           /\ last'.arg.user = target)
          => /\ CollaboratorRows(n, target)' # {}
             /\ \A r \in CollaboratorRows(n, target)' : ~r.is_active
             /\ Cardinality(NoteCollaboratorRows(collaborators', n))
                   >= Cardinality(NoteCollaboratorRows(collaborators, n))]_vars

\* C18: an unshare for a pair without an active grant (no row, or only a
\* row that is switched off) is answered NotFound and changes no grant row.
C18_UnshareNeedsActiveGrant ==
    [][\A n \in NoteIds : \A target \in Users :
          (/\ last'.op = "unshare" /\ last'.note = n
           /\ last'.arg.user = target
           /\ ~ActiveCollaborator(n, target))
          => /\ last'.outcome = "not_found"
             /\ collaborators' = collaborators]_vars

\* ------------------------------------------------------------------------
\* Status of a note (checked under AccessSpec)
\* ------------------------------------------------------------------------

\* C19: an archived note changes status only to draft; neither publish nor
\* archive nor a field update takes it from archived to published.
C19_ArchivedOnlyToDraft ==
    [][\A n \in DOMAIN notes \cap DOMAIN notes' :
          notes[n].status = "archived"
          => notes'[n].status \in {"archived", "draft"}]_vars

\* C20: whenever a note enters status published, through publish or a field
\* update or at creation, its stored published_at is set by that step, and
\* a stored published_at is never changed afterwards (published_at holds
\* whether the column has a value).
C20_PublishedAtOnce ==
    [][\A n \in DOMAIN notes' :
          /\ (notes'[n].status = "published"
              /\ (n \in DOMAIN notes => notes[n].status # "published"))
             => notes'[n].published_at
          /\ (n \in DOMAIN notes /\ notes[n].published_at)
             => notes'[n].published_at = notes[n].published_at]_vars

\* ------------------------------------------------------------------------
\* Requests that are not authorized (checked under AccessSpec)
\* ------------------------------------------------------------------------

\* the callers a mutating action is open to: the author; for everything but
\* destroy an active collaborator of level admin, or of level edit when the
\* action is not share or unshare
Authorized(u, action, n) ==
    /\ Exists(n)
    /\ \/ notes[n].author = u
       \/ /\ action # "destroy"
          /\ \E r \in CollaboratorRows(n, u) :
                /\ r.is_active
                /\ r.permission \in (IF action \in {"share", "unshare"}
                                     THEN {"admin"} ELSE {"edit", "admin"})

\* C21: a mutating request of a caller who is not authorized for it is
\* refused and changes nothing: note fields, versions and grant rows stay
\* as they were and no audit row or notification is produced.
C21_DeniedChangesNothing ==
    [][(/\ last'.op \in UnsafeActions
        /\ last'.user \in Users
        /\ ~Authorized(last'.user, last'.op, last'.note))
       => /\ last'.outcome \in {"forbidden", "not_found"}
          /\ notes' = notes
          /\ versions' = versions
          /\ collaborators' = collaborators
          /\ emitted' = <<>>]_vars

\* bob holds an active grant of level comment and his update was answered 403
C21_Witness ==
    \E n \in DOMAIN notes :
        /\ \E r \in CollaboratorRows(n, "bob") : r.permission = "comment" /\ r.is_active
        /\ notes[n].author # "bob"
        /\ last = Request("partial_update", "bob", n, "forbidden")

\* ------------------------------------------------------------------------
\* Properties of updates (checked under UpdateSpec)
\* ------------------------------------------------------------------------

\* C22: an update that get_object() lets through commits a version of the
\* note exactly when it changes the title or the content; an update of
\* status, visibility or priority alone, and a toggle of the pin, leave the
\* version table as it was.
C22_VersionIffTitleOrContent ==
    [][\A n \in NoteIds :
          (/\ last'.op \in {"update", "partial_update", "toggle_pin"}
           /\ last'.outcome = "ok"
           /\ last'.note = n)
          => IF notes'[n].title # notes[n].title \/ notes'[n].content # notes[n].content
             THEN \E v \in versions' \ versions :
                     /\ v.note = n
                     /\ v.title = notes'[n].title
                     /\ v.content = notes'[n].content
             ELSE versions' = versions]_vars

\* bob's update changed a tracked field of n1, title and content are the
\* ones of the creation, and the initial version is still the only one
C22_Witness ==
    /\ Exists("n1")
    /\ last.op \in {"update", "partial_update"}
    /\ last.user = "bob"
    /\ last.outcome = "ok"
    /\ emitted # <<>>
    /\ notes["n1"].title = "t1"
    /\ notes["n1"].content = "c1"
    /\ notes["n1"].priority = "5"
    /\ Cardinality(versions) = 1

\* ------------------------------------------------------------------------
\* Properties of the audit trail and the notifications
\* ------------------------------------------------------------------------

\* the audit rows among the effects of a request
AuditRows(effects) == {i \in DOMAIN effects : effects[i].kind = "audit"}

\* C23: a request that get_object() lets through and that changes a note
\* row, a version row or a grant row appends an audit row naming the caller;
\* a request answered forbidden or not found appends none.
C23_AuthorizedMutationAudited ==
    [][/\ (/\ last'.user \in Users
           /\ last'.outcome = "ok"
           /\ <<notes, versions, collaborators, deleted>>'
                 # <<notes, versions, collaborators, deleted>>)
          => \E i \in AuditRows(emitted') : emitted'[i].who = last'.user
       /\ last'.outcome \in {"forbidden", "not_found"} => AuditRows(emitted') = {}]_vars

\* C24: among the effects of one request, every Notification row and every
\* web-socket send comes after an audit row of that request.
C24_AuditBeforeNotification ==
    \A i \in DOMAIN emitted :
        emitted[i].kind # "audit" => \E j \in 1..(i - 1) : emitted[j].kind = "audit"

\* the users that the effects of a request notify, by a Notification row or
\* by a web-socket send
Notified(effects) == {effects[i].who : i \in DOMAIN effects \ AuditRows(effects)}

\* C25: an update that changes a tracked field, and a comment, notify
\* exactly the note's author and its active collaborators without the user
\* who acted.
C25_NotifiedAuthorAndCollaborators ==
    [][\A n \in NoteIds :
          (/\ last'.op \in {"update", "partial_update", "comment"}
           /\ last'.outcome = "ok"
           /\ last'.note = n
           /\ emitted' # <<>>)
          => Notified(emitted')
                = ({notes[n].author} \cup ActiveCollaborators(n)) \ {last'.user}]_vars

\* C26: the effects of one request hold at most one Notification row and at
\* most one send per channel for the same recipient and event.
C26_OneNotificationPerRecipient ==
    \A i \in DOMAIN emitted : \A j \in DOMAIN emitted :
        (/\ i # j
         /\ emitted[i].kind # "audit"
         /\ emitted[i].kind = emitted[j].kind
         /\ emitted[i].what = emitted[j].what)
        => emitted[i].who # emitted[j].who

\* C27: when the send of an update to one recipient fails, every other
\* active collaborator still gets the send, the request is answered as a
\* success, and the changed note row and its audit row stay.
C27_DeliveryFailureIsolated ==
    [][\A n \in NoteIds : \A failed \in Users :
          (/\ last'.op \in {"update", "partial_update"}
           /\ last'.note = n
           /\ last'.arg.user = failed)
          => /\ \A w \in ActiveCollaborators(n) \ {failed} : w \in Notified(emitted')
             /\ last'.outcome = "ok"
             /\ notes'[n] # notes[n]
             /\ \E i \in AuditRows(emitted') : emitted'[i].who = last'.user]_vars

\* the users told of a share by a Notification row or a send
SharedNotified(effects) ==
    {effects[i].who : i \in {j \in DOMAIN effects \ AuditRows(effects) :
                                 effects[j].what = "note_shared"}}

\* C28: a share that inserts the grant row of (note, user) tells exactly
\* that user of the share; a share naming a user whose row is already stored
\* tells nobody.
C28_ShareNotifiesNewUserOnly ==
    [][\A n \in NoteIds : \A target \in Users :
          (/\ last'.op = "share" /\ last'.outcome = "ok"
           /\ last'.note = n /\ last'.arg.user = target)
          => SharedNotified(emitted')
                = IF CollaboratorRows(n, target) = {} THEN {target} ELSE {}]_vars

\* a user has just shared the note with another user, who got the
\* Notification row
C28_Witness ==
    /\ last.op = "share"
    /\ last.outcome = "ok"
    /\ last.user # last.arg.user
    /\ \E i \in DOMAIN emitted :
          /\ emitted[i].kind = "notification"
          /\ emitted[i].who = last.arg.user
          /\ emitted[i].by = last.user

\* ------------------------------------------------------------------------
\* Properties of escalation (checked under AccessSpec)
\* ------------------------------------------------------------------------

\* the author of the note or an active collaborator at admin
HasAdminLevel(u, n) ==
    /\ Exists(n)
    /\ \/ notes[n].author = u
       \/ \E r \in CollaboratorRows(n, u) : r.is_active /\ r.permission = "admin"

\* C29: a request of a user below admin on a note gives nobody read access
\* to the note: whoever has the note in get_queryset after the request had
\* it before.
C29_BelowAdminGrantsNoRead ==
    [][\A n \in NoteIds : \A u \in Users : \A w \in Users :
          (/\ last'.user = u /\ last'.note = n
           /\ Exists(n) /\ ~HasAdminLevel(u, n)
           /\ w # u
           /\ (Exists(n) /\ get_queryset(w, n))')
          => get_queryset(w, n)]_vars

\* ------------------------------------------------------------------------
\* Properties of groups (checked under GroupSpec)
\* ------------------------------------------------------------------------

\* C30: every stored group has a membership row of its owner with role
\* owner, permission admin and is_active set, created by the group's first
\* save.
C30_OwnerIsActiveMember ==
    \A g \in DOMAIN groups :
        \E m \in GroupMembershipRows(g, groups[g].owner) :
            /\ m.role = "owner"
            /\ m.permission = "admin"
            /\ m.is_active

====
